---- MODULE Spec2Model ----
(***************************************************************************)
(* Model of scripts/optimize_images.py: the batch loop of main over the    *)
(* entries of img/, the JPEG transform optimize_jpeg, and the pure         *)
(* dimension computation resize_to_max.                                    *)
(*                                                                         *)
(* Spec       : one run of main over a directory chosen in Init.           *)
(* ResizeSpec : resize_to_max applied to inputs chosen in ResizeInit.      *)
(***************************************************************************)
EXTENDS Integers, Sequences, FiniteSets, TLC

VARIABLES
    pc,            \* position of main: "start", "loop", "done", "crashed"; "idle" under ResizeSpec
    img_dir,       \* os.path.isdir(IMG_DIR)
    listing,       \* os.listdir(IMG_DIR): the names, in the order the OS returns them
    files,         \* files[i]: what is on disk under listing[i] now
    files0,        \* files as the run found them (never assigned after Init)
    i,             \* index in listing of the entry the for loop handles next
    total_before,  \* main's accumulator, line 60
    total_after,   \* main's accumulator, line 61
    out,           \* the lines printed so far
    attempted,     \* indices handed to optimize_jpeg
    failed,        \* indices whose iteration ended in the except clause
    call           \* ResizeSpec: the resize_to_max call in progress

vars == <<pc, img_dir, listing, files, files0, i, total_before, total_after,
          out, attempted, failed, call>>

\* ------------------------------------------------------------------ bounds

MaxEntries   == 2     \* entries in img/
MaxSizeSteps == 2     \* file sizes are 0, SizeStep, ..., MaxSizeSteps * SizeStep bytes
SizeStep     == 512
MaxDim       == 7     \* ResizeSpec: widths and heights 1..MaxDim (plus the ones around GALLERY_MAX)
MaxThreshold == 4     \* ResizeSpec: thresholds 1..MaxThreshold (plus the two of the program)

\* ------------------------------------------------------- program constants

GALLERY_MAX    == 900
HERO_MAX_WIDTH == 1200
JPEG_QUALITY   == 85
KiB            == 1024

\* ------------------------------------------------------------------- names

\* A file name is the sequence of its characters.
Upper == <<"A","B","C","D","E","F","G","H","I","J","K","L","M",
           "N","O","P","Q","R","S","T","U","V","W","X","Y","Z">>
Lower == <<"a","b","c","d","e","f","g","h","i","j","k","l","m",
           "n","o","p","q","r","s","t","u","v","w","x","y","z">>

\* str.lower() on one character
LowerChar(c) ==
    IF \E k \in 1..Len(Upper) : Upper[k] = c
    THEN Lower[CHOOSE k \in 1..Len(Upper) : Upper[k] = c]
    ELSE c

\* name.lower()
lower(name) == [k \in 1..Len(name) |-> LowerChar(name[k])]

\* s.endswith(suffix)
endswith(s, suffix) ==
    /\ Len(s) >= Len(suffix)
    /\ SubSeq(s, Len(s) - Len(suffix) + 1, Len(s)) = suffix

HeroPng == <<"h","e","r","o","-","b","r","e","a","d",".","p","n","g">>
HeroJpg == <<"h","e","r","o","-","b","r","e","a","d",".","j","p","g">>
DotJpeg == <<".","j","p","e","g">>
DotJpg  == <<".","j","p","g">>

\* The names a directory of the model is drawn from.
Names == {
    <<"H","e","r","o","-","B","r","e","a","d",".","P","N","G">>,
    <<"H","E","R","O","-","b","r","e","a","d",".","J","p","g">>,
    <<"p","1",".","J","P","G">>,
    <<"b",".","j","p","e","g">>,
    <<"x",".","g","i","f">> }

\* ------------------------------------------------------------------- files

Sizes == {k * SizeStep : k \in 0..MaxSizeSteps}

\* Pixel sizes of the images of the model: one that is downscaled, one so
\* elongated that the shorter side computes to 0.
NoImage == <<0, 0>>
Dims == { <<2 * GALLERY_MAX + 200, GALLERY_MAX + 100>>, <<2 * GALLERY_MAX + 1, 1>> }

\* What a directory entry can be when the run starts: a directory, a regular
\* file that is no image (any size, the empty file included), or a regular
\* file holding an image (never empty).
\* fmt "orig" marks the bytes the run found; quality is 0 unless the run encoded them.
Dir == [isfile |-> FALSE, size |-> 0, dims |-> NoImage, fmt |-> "dir", quality |-> 0]
StartEntries ==
    {Dir}
    \cup {[isfile |-> TRUE, size |-> s, dims |-> NoImage, fmt |-> "orig", quality |-> 0] :
              s \in Sizes}
    \cup {[isfile |-> TRUE, size |-> s, dims |-> d, fmt |-> "orig", quality |-> 0] :
              s \in Sizes \ {0}, d \in Dims}

\* os.path.getsize
getsize(f) == f.size

\* ---------------------------------------------------------- resize_to_max

\* int(a / b) for a >= 0, b > 0: true division, then truncation. The operands
\* stay far below 2^53 and a quotient that is no integer lies at least 1/b
\* away from one, so the double rounds to the same integer as the exact
\* quotient.
IntTrueDiv(a, b) == a \div b

\* Mutant: the quotient max_size / w is truncated before it is multiplied.
resize_to_max_DivFirst(size, max_size) ==
    LET w == size[1]
        h == size[2]
    IN  IF w <= max_size /\ h <= max_size
        THEN [size |-> size, resized |-> FALSE]
        ELSE IF w >= h
             THEN [size |-> <<max_size, h * IntTrueDiv(max_size, w)>>, resized |-> TRUE]
             ELSE [size |-> <<w * IntTrueDiv(max_size, h), max_size>>, resized |-> TRUE]

\* Mutant: the early return compares with < instead of <=.
resize_to_max_Strict(size, max_size) ==
    LET w == size[1]
        h == size[2]
    IN  IF w < max_size /\ h < max_size
        THEN [size |-> size, resized |-> FALSE]
        ELSE IF w >= h
             THEN [size |-> <<max_size, IntTrueDiv(h * max_size, w)>>, resized |-> TRUE]
             ELSE [size |-> <<IntTrueDiv(w * max_size, h), max_size>>, resized |-> TRUE]

\* resize_to_max(img, max_size) on an image of pixel size <<w, h>>: the size
\* of the image returned, and whether img.resize was called (line 33).
resize_to_max(size, max_size) ==
    LET w == size[1]
        h == size[2]
    IN  IF w <= max_size /\ h <= max_size
        THEN [size |-> size, resized |-> FALSE]
        ELSE IF w >= h
             THEN [size |-> <<max_size, IntTrueDiv(h * max_size, w)>>, resized |-> TRUE]
             ELSE [size |-> <<IntTrueDiv(w * max_size, h), max_size>>, resized |-> TRUE]

\* Image.resize raises ValueError for a requested width or height below 1.
ResizeRaises(r) == r.resized /\ (r.size[1] < 1 \/ r.size[2] < 1)

\* ----------------------------------------------------------- optimize_jpeg

\* The ways optimize_jpeg(path) can end on file f: "ok", or the step that
\* raised. Image.open raises on bytes that are no image and may raise on any
\* file (permissions); img.save may raise on any file (disk full).
JpegOutcomes(f) ==
    {"open"}
    \cup (IF f.dims = NoImage THEN {}
          ELSE IF ResizeRaises(resize_to_max(f.dims, GALLERY_MAX)) THEN {"resize"}
          ELSE {"ok", "save"})

\* The file after optimize_jpeg ended in `how`; s is the size of what save wrote.
\* A save that raises leaves a truncated file of any size behind.
optimize_jpeg(f, how, s) ==
    CASE how = "ok"   -> [isfile |-> TRUE, size |-> s,
                          dims |-> resize_to_max(f.dims, GALLERY_MAX).size,
                          fmt |-> "JPEG", quality |-> JPEG_QUALITY]
      [] how = "save" -> [isfile |-> TRUE, size |-> s, dims |-> NoImage,
                          fmt |-> "partial", quality |-> 0]
      [] OTHER        -> f

\* The sizes save can leave: a complete JPEG is never empty.
SavedSizes(how) == IF how = "ok" THEN Sizes \ {0} ELSE IF how = "save" THEN Sizes ELSE {0}

\* optimize_hero(path): resize to HERO_MAX_WIDTH, save as PNG. main never calls it.
optimize_hero(f, s) ==
    [isfile |-> TRUE, size |-> s, dims |-> resize_to_max(f.dims, HERO_MAX_WIDTH).size,
     fmt |-> "PNG", quality |-> 0]

\* -------------------------------------------------------------------- main

\* Mutant: the hero names are compared with the name as listed, not lower-cased.
Classify_NoLower(name) ==
    LET low == lower(name)
    IN  IF name = HeroPng \/ name = HeroJpg THEN "hero"
        ELSE IF endswith(low, DotJpeg) \/ endswith(low, DotJpg) THEN "jpeg"
        ELSE "other"

\* Mutant: every name that is no hero name is taken for a JPEG.
Classify_ElseJpeg(name) ==
    LET low == lower(name)
    IN  IF low = HeroPng \/ low = HeroJpg THEN "hero" ELSE "jpeg"

\* Lines 69-76: the branch of the if/elif/else the name takes.
Classify(name) ==
    LET low == lower(name)
    IN  IF low = HeroPng \/ low = HeroJpg THEN "hero"
        ELSE IF endswith(low, DotJpeg) \/ endswith(low, DotJpg) THEN "jpeg"
        ELSE "other"

\* The operands of pct = (1 - after / before) * 100 if before else 0, as the
\* exact fraction <<numerator, denominator>>.
Pct(after, before) ==
    IF before # 0 THEN <<(before - after) * 100, before>> ELSE <<0, 1>>

\* Classify over the names of the model, evaluated once.
ClassOf == [n \in Names |-> Classify(n)]

Line(kind, name, before, after, note) ==
    [kind |-> kind, name |-> name, before |-> before, after |-> after, note |-> note]

NoName == <<>>

InLoop == pc = "loop" /\ i <= Len(listing)

\* Lines 56-58: no img/ directory.
NoImgDir ==
    /\ pc = "start"
    /\ ~img_dir
    /\ out' = Append(out, Line("nodir", NoName, 0, 0, <<>>))
    /\ pc' = "done"
    /\ UNCHANGED <<img_dir, listing, files, files0, i, total_before, total_after,
                   attempted, failed, call>>

\* Lines 59-62: the header, the accumulators, the listing.
Begin ==
    /\ pc = "start"
    /\ img_dir
    /\ out' = Append(out, Line("header", NoName, 0, 0, <<>>))
    /\ total_before' = 0
    /\ total_after' = 0
    /\ i' = 1
    /\ pc' = "loop"
    /\ UNCHANGED <<img_dir, listing, files, files0, attempted, failed, call>>

\* Lines 63-65: not a regular file.
SkipNonFile ==
    /\ InLoop
    /\ ~files[i].isfile
    /\ i' = i + 1
    /\ UNCHANGED <<pc, img_dir, listing, files, files0, total_before, total_after,
                   out, attempted, failed, call>>

\* Lines 67-72 and 75-76: a regular file the classification skips.
SkipFile ==
    /\ InLoop
    /\ files[i].isfile
    /\ ClassOf[listing[i]] # "jpeg"
    /\ total_before' = total_before + getsize(files[i])
    /\ i' = i + 1
    /\ UNCHANGED <<pc, img_dir, listing, files, files0, total_after,
                   out, attempted, failed, call>>

\* Mutant: total_after accumulates size_before.
OptimizeOk_AddsBefore ==
    /\ pc = "loop" /\ i <= Len(listing)
    /\ files[i].isfile
    /\ ClassOf[listing[i]] = "jpeg"
    /\ "ok" \in JpegOutcomes(files[i])
    /\ \E s \in SavedSizes("ok") :
         LET size_before == getsize(files[i])
             after       == optimize_jpeg(files[i], "ok", s)
             size_after  == getsize(after)
         IN  /\ files' = [files EXCEPT ![i] = after]
             /\ total_before' = total_before + size_before
             /\ total_after' = total_after + size_before
             /\ out' = Append(out, Line("file", listing[i], size_before \div KiB,
                                        size_after \div KiB, Pct(size_after, size_before)))
    /\ attempted' = attempted \cup {i}
    /\ i' = i + 1
    /\ UNCHANGED <<pc, img_dir, listing, files0, failed, call>>

\* Mutant: size_before is not added to total_before.
OptimizeOk_NoBefore ==
    /\ pc = "loop" /\ i <= Len(listing)
    /\ files[i].isfile
    /\ ClassOf[listing[i]] = "jpeg"
    /\ "ok" \in JpegOutcomes(files[i])
    /\ \E s \in SavedSizes("ok") :
         LET size_before == getsize(files[i])
             after       == optimize_jpeg(files[i], "ok", s)
             size_after  == getsize(after)
         IN  /\ files' = [files EXCEPT ![i] = after]
             /\ total_after' = total_after + size_after
             /\ out' = Append(out, Line("file", listing[i], size_before \div KiB,
                                        size_after \div KiB, Pct(size_after, size_before)))
    /\ attempted' = attempted \cup {i}
    /\ i' = i + 1
    /\ UNCHANGED <<pc, img_dir, listing, files0, total_before, failed, call>>

\* Lines 67-80: a JPEG name, optimize_jpeg returns.
OptimizeOk ==
    /\ InLoop
    /\ files[i].isfile
    /\ ClassOf[listing[i]] = "jpeg"
    /\ "ok" \in JpegOutcomes(files[i])
    /\ \E s \in SavedSizes("ok") :
         LET size_before == getsize(files[i])
             after       == optimize_jpeg(files[i], "ok", s)
             size_after  == getsize(after)
         IN  /\ files' = [files EXCEPT ![i] = after]
             /\ total_before' = total_before + size_before
             /\ total_after' = total_after + size_after
             /\ out' = Append(out, Line("file", listing[i], size_before \div KiB,
                                        size_after \div KiB, Pct(size_after, size_before)))
    /\ attempted' = attempted \cup {i}
    /\ i' = i + 1
    /\ UNCHANGED <<pc, img_dir, listing, files0, failed, call>>

\* Mutant: no except clause, the exception leaves main.
OptimizeFail_NoCatch ==
    /\ pc = "loop" /\ i <= Len(listing)
    /\ files[i].isfile
    /\ ClassOf[listing[i]] = "jpeg"
    /\ \E how \in JpegOutcomes(files[i]) \ {"ok"} : \E s \in SavedSizes(how) :
         files' = [files EXCEPT ![i] = optimize_jpeg(files[i], how, s)]
    /\ total_before' = total_before + getsize(files[i])
    /\ attempted' = attempted \cup {i}
    /\ failed' = failed \cup {i}
    /\ pc' = "crashed"
    /\ UNCHANGED <<img_dir, listing, files0, i, total_after, out, call>>

\* Lines 67-74 and 81-82: a JPEG name, optimize_jpeg raises.
OptimizeFail ==
    /\ InLoop
    /\ files[i].isfile
    /\ ClassOf[listing[i]] = "jpeg"
    /\ \E how \in JpegOutcomes(files[i]) \ {"ok"} : \E s \in SavedSizes(how) :
         /\ files' = [files EXCEPT ![i] = optimize_jpeg(files[i], how, s)]
         /\ out' = Append(out, Line("skip", listing[i], 0, 0, how))
    /\ total_before' = total_before + getsize(files[i])
    /\ attempted' = attempted \cup {i}
    /\ failed' = failed \cup {i}
    /\ i' = i + 1
    /\ UNCHANGED <<pc, img_dir, listing, files0, total_after, call>>

\* Mutant: the summary is printed when total_before is not 0.
Summary_OnBefore ==
    /\ pc = "loop"
    /\ i > Len(listing)
    /\ IF total_before # 0
       THEN /\ pc' = "done"
            /\ out' = Append(out, Line("total", NoName, total_before \div KiB,
                                       total_after \div KiB,
                                       Pct(total_after, total_before)))
       ELSE /\ pc' = "done"
            /\ out' = out
    /\ UNCHANGED <<img_dir, listing, files, files0, i, total_before, total_after,
                   attempted, failed, call>>

\* Lines 83-85: the summary. The division of line 84 is not guarded.
Summary ==
    /\ pc = "loop"
    /\ i > Len(listing)
    /\ IF total_after # 0
       THEN IF total_before = 0
            THEN /\ pc' = "crashed"
                 /\ out' = out
            ELSE /\ pc' = "done"
                 /\ out' = Append(out, Line("total", NoName, total_before \div KiB,
                                            total_after \div KiB,
                                            Pct(total_after, total_before)))
       ELSE /\ pc' = "done"
            /\ out' = out
    /\ UNCHANGED <<img_dir, listing, files, files0, i, total_before, total_after,
                   attempted, failed, call>>

NoCall == [size |-> NoImage, max_size |-> 0, ret |-> [size |-> NoImage, resized |-> FALSE],
           returned |-> FALSE]

\* The directories a run can find: up to MaxEntries entries of distinct names.
Listings == UNION {{l \in [1..n -> Names] : \A a, b \in 1..n : l[a] = l[b] => a = b} :
                   n \in 0..MaxEntries}

Init ==
    /\ pc = "start"
    /\ img_dir \in BOOLEAN
    /\ listing \in Listings
    /\ files \in [1..Len(listing) -> StartEntries]
    /\ img_dir = FALSE => listing = <<>>
    /\ files0 = files
    /\ i = 0
    /\ total_before = 0
    /\ total_after = 0
    /\ out = <<>>
    /\ attempted = {}
    /\ failed = {}
    /\ call = NoCall

Next ==
    \/ NoImgDir
    \/ Begin
    \/ SkipNonFile
    \/ SkipFile
    \/ OptimizeOk
    \/ OptimizeFail
    \/ Summary

Spec == Init /\ [][Next]_vars

\* -------------------------------------------------------------- ResizeSpec

\* The inputs resize_to_max is applied to: the small ones, and the ones
\* around the two thresholds of the program.
ResizeDims ==
    (1..MaxDim) \cup {1, GALLERY_MAX - 1, GALLERY_MAX, GALLERY_MAX + 1,
                      2 * GALLERY_MAX, 2 * GALLERY_MAX + 1}
ResizeThresholds == (1..MaxThreshold) \cup {GALLERY_MAX, HERO_MAX_WIDTH}

ResizeInit ==
    /\ pc = "idle"
    /\ img_dir = FALSE
    /\ listing = <<>>
    /\ files = <<>>
    /\ files0 = <<>>
    /\ i = 0
    /\ total_before = 0
    /\ total_after = 0
    /\ out = <<>>
    /\ attempted = {}
    /\ failed = {}
    /\ \E w \in ResizeDims, h \in ResizeDims, t \in ResizeThresholds :
         call = [size |-> <<w, h>>, max_size |-> t,
                 ret |-> [size |-> NoImage, resized |-> FALSE], returned |-> FALSE]

ResizeCall ==
    /\ pc = "idle"
    /\ ~call.returned
    /\ call' = [call EXCEPT !.ret = resize_to_max(call.size, call.max_size),
                            !.returned = TRUE]
    /\ UNCHANGED <<pc, img_dir, listing, files, files0, i, total_before, total_after,
                   out, attempted, failed>>

ResizeNext == ResizeCall

ResizeSpec == ResizeInit /\ [][ResizeNext]_vars

\* ------------------------------------------------------------ claim helpers

RECURSIVE SumSize(_, _)
\* The sum of getsize(fs[k]) over the indices k of S.
SumSize(S, fs) ==
    IF S = {} THEN 0
    ELSE LET k == CHOOSE x \in S : TRUE
         IN  getsize(fs[k]) + SumSize(S \ {k}, fs)

Entries == 1..Len(listing)
Succeeded == attempted \ failed

\* The names of the model that are, lower-cased, one of the two hero names.
HeroNames == {n \in Names : lower(n) \in {HeroPng, HeroJpg}}
HeroNamed(name) == name \in HeroNames

\* The names of the model that end, lower-cased, in .jpg or .jpeg.
JpegNames == {n \in Names : endswith(lower(n), DotJpg) \/ endswith(lower(n), DotJpeg)}
JpegNamed(name) == name \in JpegNames

\* The kinds of the lines printed for entry k.
LinesFor(k) == {n \in 1..Len(out) : out[n].kind \in {"file", "skip"} /\ out[n].name = listing[k]}

Returned == pc = "idle" /\ call.returned
InW == call.size[1]
InH == call.size[2]
OutW == call.ret.size[1]
OutH == call.ret.size[2]

\* -------------------------------------------------------------------- C1
\* C1: a regular file whose lower-cased name is hero-bread.png or
\* hero-bread.jpg is never handed to optimize_jpeg and its content is, at
\* every point of the run, the content the run found.
C1_HeroUntouched ==
    \A k \in Entries :
        (files0[k].isfile /\ HeroNamed(listing[k]))
            => /\ files[k] = files0[k]
               /\ k \notin attempted

\* A finished run that passed a hero-named image file spelled in mixed case
\* with the .jpg extension, and that rewrote another file.
C1_Witness ==
    /\ pc = "done"
    /\ \E k \in Entries :
         /\ files0[k].isfile /\ files0[k].dims # NoImage
         /\ HeroNamed(listing[k]) /\ JpegNamed(listing[k])
         /\ listing[k] # HeroJpg
    /\ \E k \in Entries : files[k] # files0[k]

\* -------------------------------------------------------------------- C2
\* C2: an entry that is no regular file, or whose lower-cased name neither
\* is a hero name nor ends in .jpg/.jpeg, is never modified and gets neither
\* a before/after line nor a skip line.
C2_OthersUntouched ==
    \A k \in Entries :
        (~files0[k].isfile \/ (~HeroNamed(listing[k]) /\ ~JpegNamed(listing[k])))
            => /\ files[k] = files0[k]
               /\ LinesFor(k) = {}

\* A finished run that passed a directory with a JPEG name and printed a
\* per-file line for another entry.
C2_Witness ==
    /\ pc = "done"
    /\ \E k \in Entries : ~files0[k].isfile /\ JpegNamed(listing[k])
    /\ \E k \in Entries : LinesFor(k) # {}

\* -------------------------------------------------------------------- C3
\* C3: every file on which optimize_jpeg raised has a skip line naming it
\* with the error; the run never aborts (it reaches "done" and can always
\* take its next step before that); and once it is done every entry was
\* handled by its own classification alone: exactly the regular files with
\* a JPEG name that is no hero name were handed to optimize_jpeg, whatever
\* failed before them.
C3_FailureDoesNotAbort ==
    /\ pc # "crashed"
    /\ (pc = "done" \/ ENABLED Next)
    /\ \A k \in failed :
         \E n \in LinesFor(k) : out[n].kind = "skip" /\ out[n].note \in {"open", "resize", "save"}
    /\ pc = "loop" => attempted =
            {k \in 1..(i - 1) :
                files0[k].isfile /\ ~HeroNamed(listing[k]) /\ JpegNamed(listing[k])}
    /\ (pc = "done" /\ img_dir) =>
         /\ i = Len(listing) + 1
         /\ attempted =
              {k \in Entries :
                  files0[k].isfile /\ ~HeroNamed(listing[k]) /\ JpegNamed(listing[k])}

\* A finished run in which the first entry failed and a later one was
\* transformed.
C3_Witness ==
    /\ pc = "done"
    /\ 1 \in failed
    /\ \E k \in Succeeded : k > 1

\* -------------------------------------------------------------------- C4
\* C4: only the files handed to the JPEG transform are counted: total_before
\* is the sum of the pre-sizes of the files handed to optimize_jpeg, so a
\* hero-named file or a file with another extension adds nothing to it.
C4_SkippedNotCounted ==
    total_before = SumSize(attempted, files0)

\* -------------------------------------------------------------------- C7
\* C7: a finished run over an existing directory has printed the Total line
\* if and only if at least one file was transformed (got a before/after
\* line); no Total line is printed before the end, and when it is printed it
\* is the last line.
C7_TotalIffTransformed ==
    LET totals == {n \in 1..Len(out) : out[n].kind = "total"}
        perfile == {n \in 1..Len(out) : out[n].kind = "file"}
    IN  /\ pc # "done" => totals = {}
        /\ (pc = "done" /\ img_dir) =>
             /\ (totals # {} <=> perfile # {})
             /\ (perfile # {} <=> Succeeded # {})
             /\ totals \subseteq {Len(out)}

\* A finished run that transformed a file and printed the Total line last,
\* with a skipped JPEG in it as well.
C7_Witness ==
    /\ pc = "done"
    /\ out # <<>>
    /\ out[Len(out)].kind = "total"
    /\ failed # {}

\* -------------------------------------------------------------------- C8
\* C8: a file whose transform raised gets no before/after line; at every
\* point total_after is the sum of the post-sizes of the files transformed
\* so far, and total_before is at least the sum of the pre-sizes of the
\* transformed files and of the failed ones.
C8_FailedCountsBeforeOnly ==
    /\ \A k \in failed : \A n \in LinesFor(k) : out[n].kind = "skip"
    /\ total_after = SumSize(Succeeded, files)
    /\ total_before >= SumSize(attempted, files0)

\* A run in which a non-empty file failed and another was transformed.
C8_Witness ==
    /\ \E k \in failed : getsize(files0[k]) > 0
    /\ Succeeded # {}
    /\ pc = "done"

\* -------------------------------------------------------------------- C9
\* C9: the division of the summary never has a zero divisor: once the loop
\* is over, total_after # 0 implies total_before > 0, and the run never
\* ends in the ZeroDivisionError.
C9_NoZeroDivisor ==
    /\ pc # "crashed"
    /\ (pc \in {"loop", "done"} /\ total_after # 0) => total_before > 0

\* A finished run whose summary divided: the Total line is printed, and the
\* directory held an empty file with a JPEG name.
C9_Witness ==
    /\ pc = "done"
    /\ out # <<>>
    /\ out[Len(out)].kind = "total"
    /\ \E k \in Entries : files0[k].isfile /\ getsize(files0[k]) = 0 /\ JpegNamed(listing[k])

C6_NoUpscaling ==
    Returned =>
        /\ (InW <= call.max_size /\ InH <= call.max_size) =>
               (call.ret.size = call.size /\ ~call.ret.resized)
        /\ OutW <= InW
        /\ OutH <= InH

\* A call on an image whose longer side is exactly the threshold of the gallery.
C6_Witness ==
    /\ Returned
    /\ call.max_size = GALLERY_MAX
    /\ InW = GALLERY_MAX
    /\ InH < GALLERY_MAX
    /\ call.ret.size = call.size

\* -------------------------------------------------------------------- C10
\* C10: for w, h, T >= 1 the width and the height resize_to_max requests
\* from img.resize are both at least 1.
C10_RequestedSizePositive ==
    (Returned /\ call.ret.resized) => (OutW >= 1 /\ OutH >= 1)

====
